---- MODULE Spec2Model ----
(***************************************************************************)
(* Machine knitting calculator: the straight-line shaping calculator       *)
(* (MagicFormulaCalculator.calculate) and the per-side crew-neck allocator *)
(* (CrewNeckCalculator.calculate) of src/src/calculators.                  *)
(*                                                                         *)
(* Both are static functions over numbers and enums.  They are modelled as *)
(* operators computed the way the code computes them; the specification    *)
(* draws the arguments of one call from bounded sets and applies the       *)
(* function to them.                                                       *)
(***************************************************************************)
EXTENDS Integers, Sequences, FiniteSets, TLC

VARIABLES calculationType, stitches, rows, distribution, operation,
          totalStitchesToDecrease, result, crewNeckResult, pc,
          showInstructions, measurementUnit, gauge, measurements,
          neckMeasurement, memoDeps

\* the state of the App component that the calculators do not read
uiVars == <<showInstructions, measurementUnit, gauge, measurements,
            neckMeasurement, memoDeps>>

vars == <<calculationType, stitches, rows, distribution, operation,
          totalStitchesToDecrease, result, crewNeckResult, pc,
          showInstructions, measurementUnit, gauge, measurements,
          neckMeasurement, memoDeps>>

(***************************************************************************)
(* Bounds of the argument sets.                                            *)
(***************************************************************************)
MaxStitches == 50
MaxRows == 120
MaxNeckStitches == 40
MaxTypedMeasurement == 1
MaxTypedGauge == 1

StitchesRange == -1 .. MaxStitches
RowsRange == -1 .. MaxRows
NeckStitchesRange == -1 .. MaxNeckStitches

(***************************************************************************)
(* types/index.ts                                                          *)
(***************************************************************************)
OperationType == {"decrease", "increase"}
DistributionType == {"early_extra", "late_extra"}
CalculationType == {"straight", "crew_neck"}

ShapingSegment(s, f, r) == [stitches |-> s, frequency |-> f, repetitions |-> r]

(***************************************************************************)
(* Math.max / Math.min on two numbers.                                     *)
(***************************************************************************)
MathMax(a, b) == IF a >= b THEN a ELSE b
MathMin(a, b) == IF a <= b THEN a ELSE b

(***************************************************************************)
(* MagicFormulaCalculator.calculate                                        *)
(***************************************************************************)

\* if (stitches <= 0 || rows <= 0) return the invalid-input result
InvalidInput_lenient(st, rw) == st < 0 \/ rw < 0
InvalidInput(st, rw) == st <= 0 \/ rw <= 0

InvalidInputResult ==
    [castOff |-> 0,
     gradualSegments |-> <<>>,
     japaneseNotation |-> "",
     writtenInstructions |-> <<"Invalid input: stitches and rows must be positive">>,
     totalRowsUsed |-> 0,
     isValid |-> FALSE,
     warnings |-> <<>>]

\* const availableRowsForShaping = Math.max(1, rows - 1)
AvailableRowsForShaping_noFloor(rw) == rw - 1
AvailableRowsForShaping(rw) == MathMax(1, rw - 1)

\* const availableDecreasePoints = Math.floor(availableRowsForShaping / 2)
AvailableDecreasePoints_noPlainRow(rw) == rw \div 2
AvailableDecreasePoints(rw) == AvailableRowsForShaping(rw) \div 2

\* the swap [segments[0], segments[1]] = [segments[1], segments[0]]
Swap_noTemp(segments) == <<segments[2], segments[2]>>
Swap(segments) == <<segments[2], segments[1]>>

\* stitches > availableRowsForShaping && stitches > availableDecreasePoints
OverflowSegments_swapOnLate(st, points, dist) ==
    LET baseStitchesPerPoint == st \div points
        extraStitches == st % points
        pointsWithBase == points - extraStitches
        s1 == IF extraStitches > 0
              THEN <<ShapingSegment(baseStitchesPerPoint + 1, 2, extraStitches)>>
              ELSE <<>>
        s2 == IF baseStitchesPerPoint > 0 /\ pointsWithBase > 0
              THEN Append(s1, ShapingSegment(baseStitchesPerPoint, 2, pointsWithBase))
              ELSE s1
    IN  IF dist = "late_extra" /\ Len(s2) = 2
        THEN IF s2[1].stitches > s2[2].stitches THEN Swap(s2) ELSE s2
        ELSE s2

OverflowSegments(st, points, dist) ==
    LET baseStitchesPerPoint == st \div points
        extraStitches == st % points
        pointsWithBase == points - extraStitches
        s1 == IF extraStitches > 0
              THEN <<ShapingSegment(baseStitchesPerPoint + 1, 2, extraStitches)>>
              ELSE <<>>
        s2 == IF baseStitchesPerPoint > 0 /\ pointsWithBase > 0
              THEN Append(s1, ShapingSegment(baseStitchesPerPoint, 2, pointsWithBase))
              ELSE s1
    IN  IF dist = "early_extra" /\ Len(s2) = 2
        THEN IF s2[1].stitches > s2[2].stitches THEN Swap(s2) ELSE s2
        ELSE s2

\* stitches < availableDecreasePoints: the Magic Formula
SparseSegments_unitFrequency(st, points, dist) ==
    LET a == st
        b == points
        c == b \div a
        d == b % a
        e == a - d
        f == c + 1
        s1 == IF e > 0 THEN <<ShapingSegment(1, c, e)>> ELSE <<>>
        s2 == IF d > 0 THEN Append(s1, ShapingSegment(1, f, d)) ELSE s1
    IN  IF dist = "early_extra" /\ Len(s2) = 2
        THEN IF s2[1].frequency < s2[2].frequency THEN Swap(s2) ELSE s2
        ELSE s2

SparseSegments(st, points, dist) ==
    LET a == st
        b == points
        c == b \div a
        d == b % a
        e == a - d
        f == c + 1
        s1 == IF e > 0 THEN <<ShapingSegment(1, c * 2, e)>> ELSE <<>>
        s2 == IF d > 0 THEN Append(s1, ShapingSegment(1, f * 2, d)) ELSE s1
    IN  IF dist = "early_extra" /\ Len(s2) = 2
        THEN IF s2[1].frequency < s2[2].frequency THEN Swap(s2) ELSE s2
        ELSE s2

\* stitches === availableDecreasePoints
ExactSegments_everyRow(st) == <<ShapingSegment(1, 1, st)>>
ExactSegments(st) == <<ShapingSegment(1, 2, st)>>

\* else: more stitches than decrease points, at most availableRowsForShaping
DenseSegments_unguarded(st, available) ==
    LET maxEorDecreses == available - st
        eorDecreses == MathMin(maxEorDecreses, st)
        everyRowDecreses == st - eorDecreses
    IN  <<ShapingSegment(1, 1, everyRowDecreses),
          ShapingSegment(1, 2, maxEorDecreses)>>

DenseSegments_maxEor(st, available) ==
    LET maxEorDecreses == available - st
        eorDecreses == MathMax(maxEorDecreses, st)
        everyRowDecreses == st - eorDecreses
        s1 == IF everyRowDecreses > 0
              THEN <<ShapingSegment(1, 1, everyRowDecreses)>>
              ELSE <<>>
    IN  IF maxEorDecreses > 0
        THEN Append(s1, ShapingSegment(1, 2, maxEorDecreses))
        ELSE s1

DenseSegments_halfEor(st, available) ==
    LET maxEorDecreses == (available - st) \div 2
        eorDecreses == MathMin(maxEorDecreses, st)
        everyRowDecreses == st - eorDecreses
        s1 == IF everyRowDecreses > 0
              THEN <<ShapingSegment(1, 1, everyRowDecreses)>>
              ELSE <<>>
    IN  IF maxEorDecreses > 0
        THEN Append(s1, ShapingSegment(1, 2, maxEorDecreses))
        ELSE s1

DenseSegments(st, available) ==
    LET maxEorDecreses == available - st
        eorDecreses == MathMin(maxEorDecreses, st)
        everyRowDecreses == st - eorDecreses
        s1 == IF everyRowDecreses > 0
              THEN <<ShapingSegment(1, 1, everyRowDecreses)>>
              ELSE <<>>
    IN  IF maxEorDecreses > 0
        THEN Append(s1, ShapingSegment(1, 2, maxEorDecreses))
        ELSE s1

\* the case split that fills `segments`
IsOverflow_pointsOnly(st, rw) ==
    st > AvailableDecreasePoints(rw)

IsOverflow(st, rw) ==
    st > AvailableRowsForShaping(rw) /\ st > AvailableDecreasePoints(rw)

Segments_noOverflowCase(st, rw, dist) ==
    LET availableRowsForShaping == AvailableRowsForShaping(rw)
        availableDecreasePoints == AvailableDecreasePoints(rw)
    IN  IF st > 0 /\ availableDecreasePoints > 0
        THEN IF st < availableDecreasePoints
             THEN SparseSegments(st, availableDecreasePoints, dist)
             ELSE IF st = availableDecreasePoints
             THEN ExactSegments(st)
             ELSE DenseSegments(st, availableRowsForShaping)
        ELSE <<>>

Segments(st, rw, dist) ==
    LET availableRowsForShaping == AvailableRowsForShaping(rw)
        availableDecreasePoints == AvailableDecreasePoints(rw)
    IN  IF st > 0 /\ availableDecreasePoints > 0
        THEN IF IsOverflow(st, rw)
             THEN OverflowSegments(st, availableDecreasePoints, dist)
             ELSE IF st < availableDecreasePoints
             THEN SparseSegments(st, availableDecreasePoints, dist)
             ELSE IF st = availableDecreasePoints
             THEN ExactSegments(st)
             ELSE DenseSegments(st, availableRowsForShaping)
        ELSE <<>>

\* Array.prototype.join(', ')
RECURSIVE Join(_)
Join(parts) ==
    IF parts = <<>> THEN ""
    ELSE IF Len(parts) = 1 THEN parts[1]
    ELSE parts[1] \o ", " \o Join(Tail(parts))

\* `${operationSymbol}${seg.stitches}/${seg.frequency}/${seg.repetitions}`
SegmentNotation_plusSign(seg, op) ==
    (IF op = "increase" THEN "+" ELSE "-")
        \o ToString(seg.stitches) \o "/" \o ToString(seg.frequency)
        \o "/" \o ToString(seg.repetitions)

SegmentNotation(seg, op) ==
    (IF op = "increase" THEN "" ELSE "-")
        \o ToString(seg.stitches) \o "/" \o ToString(seg.frequency)
        \o "/" \o ToString(seg.repetitions)

Notation(segments, op) ==
    Join([i \in 1 .. Len(segments) |-> SegmentNotation(segments[i], op)])

\* `${operationText} ${stitchText} every ${seg.frequency} rows, ${seg.repetitions} times`
SegmentInstruction_decreaseOnly(seg, op) ==
    "Decrease" \o " "
        \o (IF seg.stitches = 1 THEN "1 stitch"
            ELSE ToString(seg.stitches) \o " stitches")
        \o " every " \o ToString(seg.frequency) \o " rows, "
        \o ToString(seg.repetitions) \o " times"

SegmentInstruction(seg, op) ==
    (IF op = "increase" THEN "Increase" ELSE "Decrease") \o " "
        \o (IF seg.stitches = 1 THEN "1 stitch"
            ELSE ToString(seg.stitches) \o " stitches")
        \o " every " \o ToString(seg.frequency) \o " rows, "
        \o ToString(seg.repetitions) \o " times"

Instructions(segments, op) ==
    [i \in 1 .. Len(segments) |-> SegmentInstruction(segments[i], op)]

\* segments.reduce((sum, seg) => sum + (seg.frequency * seg.repetitions), 0)
RECURSIVE TotalRowsUsed_repetitionsOnly(_)
TotalRowsUsed_repetitionsOnly(segments) ==
    IF segments = <<>> THEN 0
    ELSE segments[1].repetitions
            + TotalRowsUsed_repetitionsOnly(Tail(segments))

RECURSIVE TotalRowsUsed(_)
TotalRowsUsed(segments) ==
    IF segments = <<>> THEN 0
    ELSE segments[1].frequency * segments[1].repetitions
            + TotalRowsUsed(Tail(segments))

\* Math.max(...segments.map(seg => seg.stitches), 0)
RECURSIVE MaxStitchesPerPoint(_)
MaxStitchesPerPoint(segments) ==
    IF segments = <<>> THEN 0
    ELSE MathMax(segments[1].stitches, MaxStitchesPerPoint(Tail(segments)))

LargeDecreaseLimit == 8

\* if (maxStitchesPerPoint > 8)
ExceedsLimit_inclusive(maxStitchesPerPoint) ==
    maxStitchesPerPoint >= LargeDecreaseLimit
ExceedsLimit(maxStitchesPerPoint) ==
    maxStitchesPerPoint > LargeDecreaseLimit

\* if (rows < 2)
TooFewRows_inclusive(rw) == rw <= 2
TooFewRows(rw) == rw < 2

\* the warnings, in the order they are pushed.  Math.max() of no arguments
\* is -Infinity, so the first warning needs a segment.
Warnings(st, rw, segments) ==
    LET maxStitchesPerPoint == MaxStitchesPerPoint(segments)
        w1 == IF IsOverflow(st, rw)
              THEN IF segments # <<>> /\ ExceedsLimit(maxStitchesPerPoint)
                   THEN <<"Very large decreases required: up to "
                            \o ToString(maxStitchesPerPoint)
                            \o " stitches per decrease point">>
                   ELSE <<>>
              ELSE IF TotalRowsUsed(segments) > AvailableRowsForShaping(rw)
                   THEN <<"Shaping exceeds available rows - adjust parameters">>
                   ELSE <<>>
        w2 == IF ExceedsLimit(maxStitchesPerPoint)
              THEN Append(w1, "Very large decreases per point - consider more rows for smoother curve")
              ELSE w1
        w3 == IF AvailableDecreasePoints(rw) = 0
              THEN Append(w2, "Not enough rows for EOR decreases - need at least 2 rows")
              ELSE w2
    IN  IF TooFewRows(rw)
        THEN Append(w3, "Need at least 2 rows total (1 for shaping + 1 plain row)")
        ELSE w3

\* isValid: totalRowsUsed <= availableRowsForShaping && stitches > 0 && rows >= 2
IsValid_noRowCheck(st, rw, totalRowsUsed) ==
    totalRowsUsed <= AvailableRowsForShaping(rw) /\ st > 0
IsValid_strictBudget(st, rw, totalRowsUsed) ==
    totalRowsUsed < AvailableRowsForShaping(rw) /\ st > 0 /\ rw >= 2
IsValid(st, rw, totalRowsUsed) ==
    totalRowsUsed <= AvailableRowsForShaping(rw) /\ st > 0 /\ rw >= 2

MagicFormulaCalculate(st, rw, dist, op) ==
    IF InvalidInput(st, rw)
    THEN InvalidInputResult
    ELSE LET segments == Segments(st, rw, dist)
             totalRowsUsed == TotalRowsUsed(segments)
         IN  [castOff |-> 0,
              gradualSegments |-> segments,
              japaneseNotation |-> Notation(segments, op),
              writtenInstructions |-> Instructions(segments, op),
              totalRowsUsed |-> totalRowsUsed,
              isValid |-> IsValid(st, rw, totalRowsUsed),
              warnings |-> Warnings(st, rw, segments)]

(***************************************************************************)
(* CrewNeckCalculator.calculate                                            *)
(***************************************************************************)

\* if (totalStitchesToDecrease <= 0) return the invalid-input result
InvalidNeckInput_lenient(total) == total < 0
InvalidNeckInput(total) == total <= 0

InvalidNeckResult ==
    [castOff |-> 0,
     everyRowDecrease |-> 0,
     eorDecrease |-> 0,
     japaneseNotation |-> "",
     writtenInstructions |-> <<"Invalid input: stitches must be positive">>,
     totalRowsUsed |-> 0,
     isValid |-> FALSE,
     warnings |-> <<>>]

\* const castOff = Math.floor(totalStitchesToDecrease / 3)
CastOff_quarter(total) == total \div 4
CastOff(total) == total \div 3

\* const remainingStitches = totalStitchesToDecrease - castOff
RemainingStitches_whole(total) == total
RemainingStitches(total) == total - CastOff(total)

\* const everyRowDecrease = Math.floor(remainingStitches / 2)
EveryRowDecrease_ceil(total) == (RemainingStitches(total) + 1) \div 2
EveryRowDecrease(total) == RemainingStitches(total) \div 2

\* const eorDecrease = remainingStitches - everyRowDecrease
EorDecrease(total) == RemainingStitches(total) - EveryRowDecrease(total)

SmallNeckLimit == 8

CrewNeckNotation(castOff, everyRowDecrease, eorDecrease) ==
    LET p1 == IF castOff > 0 THEN <<"-" \o ToString(castOff)>> ELSE <<>>
        p2 == IF everyRowDecrease > 0
              THEN Append(p1, "-1/1/" \o ToString(everyRowDecrease)) ELSE p1
        p3 == IF eorDecrease > 0
              THEN Append(p2, "-1/2/" \o ToString(eorDecrease)) ELSE p2
    IN  Join(p3)

CrewNeckInstructions(total, castOff, everyRowDecrease, eorDecrease, totalRowsUsed) ==
    LET i1 == <<"Per side calculations for " \o ToString(total) \o " total stitches:",
                "Cast off: " \o ToString(castOff) \o " stitches (minimum 1/3 of total)">>
        i2 == IF everyRowDecrease > 0
              THEN Append(i1, "Decrease 1 stitch every row, "
                                \o ToString(everyRowDecrease) \o " times")
              ELSE i1
        i3 == IF eorDecrease > 0
              THEN Append(i2, "Decrease 1 stitch every other row, "
                                \o ToString(eorDecrease) \o " times")
              ELSE i2
    IN  Append(i3, "Total rows for neck shaping: approximately "
                        \o ToString(totalRowsUsed))

CrewNeckWarnings(total, eorDecrease) ==
    LET w1 == IF total < SmallNeckLimit
              THEN <<"Very small neck opening - consider more stitches for adult garment">>
              ELSE <<>>
    IN  IF eorDecrease = 0
        THEN Append(w1, "No EOR decreases - curve may be too steep")
        ELSE w1

CrewNeckCalculate(total) ==
    IF InvalidNeckInput(total)
    THEN InvalidNeckResult
    ELSE LET castOff == CastOff(total)
             everyRowDecrease == EveryRowDecrease(total)
             eorDecrease == EorDecrease(total)
             totalRowsUsed == everyRowDecrease + (eorDecrease * 2)
         IN  [castOff |-> castOff,
              everyRowDecrease |-> everyRowDecrease,
              eorDecrease |-> eorDecrease,
              japaneseNotation |-> CrewNeckNotation(castOff, everyRowDecrease, eorDecrease),
              writtenInstructions |-> CrewNeckInstructions(total, castOff,
                                         everyRowDecrease, eorDecrease, totalRowsUsed),
              totalRowsUsed |-> totalRowsUsed,
              isValid |-> TRUE,
              warnings |-> CrewNeckWarnings(total, eorDecrease)]

(***************************************************************************)
(* The App component.  Measurements are held in tenths of the unit; a      *)
(* gauge is held as a reduced fraction of stitches (rows) per cm, so that  *)
(* the products are exact.                                                 *)
(***************************************************************************)
MeasurementUnit == {"cm", "inches"}

RECURSIVE Gcd(_, _)
Gcd(a, b) == IF b = 0 THEN a ELSE Gcd(b, a % b)

Fraction(n, d) == [num |-> n \div Gcd(n, d), den |-> d \div Gcd(n, d)]

\* useState initial values
InitialGauge ==
    [stitchesPerCm |-> Fraction(25, 10), rowsPerCm |-> Fraction(35, 10)]
InitialMeasurements == [widthChange |-> 100, heightAvailable |-> 200]
InitialNeckMeasurement == 80

\* what the user can type into a measurement field and into a gauge field,
\* in tenths; 0 also stands for an empty or unparsable field
TypedMeasurements == {0} \cup {100 * k : k \in 1 .. MaxTypedMeasurement}
TypedGauges == {0} \cup {25 + 10 * k : k \in 0 .. MaxTypedGauge}

\* Math.max(0.1, parseFloat(e.target.value) || 0.1)
ParseMeasurement(typed) == MathMax(1, IF typed = 0 THEN 1 ELSE typed)

\* const value = parseFloat(e.target.value) || 0;
\* const cmValue = measurementUnit === 'cm' ? value : value / 2.54
ParseGauge(typed, unit) ==
    IF unit = "cm" THEN Fraction(typed, 10) ELSE Fraction(10 * typed, 254)

\* Math.round(n / d) for d > 0
MathRound(n, d) == (2 * n + d) \div (2 * d)

\* const unitMultiplier = measurementUnit === 'inches' ? 2.54 : 1;
\* const cmValue = measurement * unitMultiplier;
\* return Math.round(cmValue * gaugePerCm)
ConvertMeasurement(measurement, unit, gaugePerCm) ==
    LET unitMultiplier == IF unit = "inches" THEN [num |-> 254, den |-> 100]
                          ELSE [num |-> 1, den |-> 1]
    IN  MathRound(measurement * unitMultiplier.num * gaugePerCm.num,
                  10 * unitMultiplier.den * gaugePerCm.den)

\* the dependency arrays of the five useMemo calls
ConvertedDeps(measurement, unit, gaugePerCm) == <<measurement, unit, gaugePerCm>>

ResultDeps_noOperation(cs, cr, dist, op) == <<cs, cr, dist>>
ResultDeps(cs, cr, dist, op) == <<cs, cr, dist, op>>

CrewNeckDeps(cn) == <<cn>>

\* one render of App: each useMemo returns its cached value unless one of
\* its dependencies differs from the one of its last computation
Render(unit, g, meas, neck, dist, op) ==
    LET csDeps == ConvertedDeps(meas.widthChange, unit, g.stitchesPerCm)
        cs == IF memoDeps.convertedStitches = csDeps THEN stitches
              ELSE ConvertMeasurement(meas.widthChange, unit, g.stitchesPerCm)
        crDeps == ConvertedDeps(meas.heightAvailable, unit, g.rowsPerCm)
        cr == IF memoDeps.convertedRows = crDeps THEN rows
              ELSE ConvertMeasurement(meas.heightAvailable, unit, g.rowsPerCm)
        cnDeps == ConvertedDeps(neck, unit, g.stitchesPerCm)
        cn == IF memoDeps.convertedNeckStitches = cnDeps
              THEN totalStitchesToDecrease
              ELSE ConvertMeasurement(neck, unit, g.stitchesPerCm)
        resDeps == ResultDeps(cs, cr, dist, op)
        res == IF memoDeps.result = resDeps THEN result
               ELSE MagicFormulaCalculate(cs, cr, dist, op)
        crewDeps == CrewNeckDeps(cn)
        crew == IF memoDeps.crewNeckResult = crewDeps THEN crewNeckResult
                ELSE CrewNeckCalculate(cn)
    IN  [convertedStitches |-> cs,
         convertedRows |-> cr,
         convertedNeckStitches |-> cn,
         result |-> res,
         crewNeckResult |-> crew,
         deps |-> [convertedStitches |-> csDeps,
                   convertedRows |-> crDeps,
                   convertedNeckStitches |-> cnDeps,
                   result |-> resDeps,
                   crewNeckResult |-> crewDeps]]

\* no useMemo has run yet
NoDeps ==
    [convertedStitches |-> <<>>, convertedRows |-> <<>>,
     convertedNeckStitches |-> <<>>, result |-> <<>>, crewNeckResult |-> <<>>]

(***************************************************************************)
(* One call of either calculator: the arguments are drawn in Init, the     *)
(* call returns its result record.                                         *)
(***************************************************************************)
NoResult == [isValid |-> FALSE]

Init ==
    /\ calculationType \in CalculationType
    /\ \/ /\ calculationType = "straight"
          /\ stitches \in StitchesRange
          /\ rows \in RowsRange
          /\ distribution \in DistributionType
          /\ operation \in OperationType
          /\ totalStitchesToDecrease = 0
       \/ /\ calculationType = "crew_neck"
          /\ stitches = 0
          /\ rows = 0
          /\ distribution = "late_extra"
          /\ operation = "decrease"
          /\ totalStitchesToDecrease \in NeckStitchesRange
    /\ result = NoResult
    /\ crewNeckResult = NoResult
    /\ pc = "call"
    /\ showInstructions = TRUE
    /\ measurementUnit = "cm"
    /\ gauge = InitialGauge
    /\ measurements = InitialMeasurements
    /\ neckMeasurement = InitialNeckMeasurement
    /\ memoDeps = NoDeps

Calculate ==
    /\ pc = "call"
    /\ calculationType = "straight"
    /\ result' = MagicFormulaCalculate(stitches, rows, distribution, operation)
    /\ pc' = "returned"
    /\ UNCHANGED <<calculationType, stitches, rows, distribution, operation,
                   totalStitchesToDecrease, crewNeckResult>>
    /\ UNCHANGED uiVars

CalculateCrewNeck ==
    /\ pc = "call"
    /\ calculationType = "crew_neck"
    /\ crewNeckResult' = CrewNeckCalculate(totalStitchesToDecrease)
    /\ pc' = "returned"
    /\ UNCHANGED <<calculationType, stitches, rows, distribution, operation,
                   totalStitchesToDecrease, result>>
    /\ UNCHANGED uiVars

Next == Calculate \/ CalculateCrewNeck

Spec == Init /\ [][Next]_vars

StraightReturned == pc = "returned" /\ calculationType = "straight"
CrewNeckReturned == pc = "returned" /\ calculationType = "crew_neck"

(***************************************************************************)
(* The App component: the first render, then one action per input-change   *)
(* event.  An action is the handler's state update followed by the render  *)
(* it causes.  stitches, rows and totalStitchesToDecrease hold the values  *)
(* of the convertedStitches, convertedRows and convertedNeckStitches       *)
(* memos; result and crewNeckResult hold the values of the result memos.   *)
(***************************************************************************)
Rendered(unit, g, meas, neck, dist, op) ==
    LET r == Render(unit, g, meas, neck, dist, op)
    IN  /\ stitches' = r.convertedStitches
        /\ rows' = r.convertedRows
        /\ totalStitchesToDecrease' = r.convertedNeckStitches
        /\ result' = r.result
        /\ crewNeckResult' = r.crewNeckResult
        /\ memoDeps' = r.deps

InitUI ==
    /\ operation = "decrease"
    /\ distribution = "late_extra"
    /\ showInstructions = TRUE
    /\ calculationType = "straight"
    /\ measurementUnit = "cm"
    /\ gauge = InitialGauge
    /\ measurements = InitialMeasurements
    /\ neckMeasurement = InitialNeckMeasurement
    /\ stitches = ConvertMeasurement(InitialMeasurements.widthChange, "cm",
                                     InitialGauge.stitchesPerCm)
    /\ rows = ConvertMeasurement(InitialMeasurements.heightAvailable, "cm",
                                 InitialGauge.rowsPerCm)
    /\ totalStitchesToDecrease
          = ConvertMeasurement(InitialNeckMeasurement, "cm",
                               InitialGauge.stitchesPerCm)
    /\ result = MagicFormulaCalculate(stitches, rows, distribution, operation)
    /\ crewNeckResult = CrewNeckCalculate(totalStitchesToDecrease)
    /\ memoDeps
          = [convertedStitches |->
                 ConvertedDeps(measurements.widthChange, measurementUnit,
                               gauge.stitchesPerCm),
             convertedRows |->
                 ConvertedDeps(measurements.heightAvailable, measurementUnit,
                               gauge.rowsPerCm),
             convertedNeckStitches |->
                 ConvertedDeps(neckMeasurement, measurementUnit,
                               gauge.stitchesPerCm),
             result |-> ResultDeps(stitches, rows, distribution, operation),
             crewNeckResult |-> CrewNeckDeps(totalStitchesToDecrease)]
    /\ pc = "rendered"

\* onChange of the stitch gauge field
ChangeStitchGauge ==
    \E typed \in TypedGauges :
        LET g == [gauge EXCEPT !.stitchesPerCm = ParseGauge(typed, measurementUnit)]
        IN  /\ gauge' = g
            /\ Rendered(measurementUnit, g, measurements, neckMeasurement,
                        distribution, operation)
            /\ UNCHANGED <<calculationType, distribution, operation, pc,
                           showInstructions, measurementUnit, measurements,
                           neckMeasurement>>

\* onChange of the row gauge field
ChangeRowGauge ==
    \E typed \in TypedGauges :
        LET g == [gauge EXCEPT !.rowsPerCm = ParseGauge(typed, measurementUnit)]
        IN  /\ gauge' = g
            /\ Rendered(measurementUnit, g, measurements, neckMeasurement,
                        distribution, operation)
            /\ UNCHANGED <<calculationType, distribution, operation, pc,
                           showInstructions, measurementUnit, measurements,
                           neckMeasurement>>

\* onClick of the two calculation type buttons
SetCalculationType ==
    \E t \in CalculationType :
        /\ calculationType' = t
        /\ Rendered(measurementUnit, gauge, measurements, neckMeasurement,
                    distribution, operation)
        /\ UNCHANGED <<distribution, operation, pc, showInstructions,
                       measurementUnit, gauge, measurements, neckMeasurement>>

\* onClick of the two operation buttons
SetOperation ==
    \E o \in OperationType :
        /\ operation' = o
        /\ Rendered(measurementUnit, gauge, measurements, neckMeasurement,
                    distribution, o)
        /\ UNCHANGED <<calculationType, distribution, pc, showInstructions,
                       measurementUnit, gauge, measurements, neckMeasurement>>

\* onChange of the width field
ChangeWidth ==
    \E typed \in TypedMeasurements :
        LET m == [measurements EXCEPT !.widthChange = ParseMeasurement(typed)]
        IN  /\ measurements' = m
            /\ Rendered(measurementUnit, gauge, m, neckMeasurement,
                        distribution, operation)
            /\ UNCHANGED <<calculationType, distribution, operation, pc,
                           showInstructions, measurementUnit, gauge,
                           neckMeasurement>>

\* onChange of the height field
ChangeHeight ==
    \E typed \in TypedMeasurements :
        LET m == [measurements EXCEPT !.heightAvailable = ParseMeasurement(typed)]
        IN  /\ measurements' = m
            /\ Rendered(measurementUnit, gauge, m, neckMeasurement,
                        distribution, operation)
            /\ UNCHANGED <<calculationType, distribution, operation, pc,
                           showInstructions, measurementUnit, gauge,
                           neckMeasurement>>

\* onChange of the distribution select
SetDistribution ==
    \E d \in DistributionType :
        /\ distribution' = d
        /\ Rendered(measurementUnit, gauge, measurements, neckMeasurement,
                    d, operation)
        /\ UNCHANGED <<calculationType, operation, pc, showInstructions,
                       measurementUnit, gauge, measurements, neckMeasurement>>

\* onChange of the neck measurement field
ChangeNeckMeasurement ==
    \E typed \in TypedMeasurements :
        LET n == ParseMeasurement(typed)
        IN  /\ neckMeasurement' = n
            /\ Rendered(measurementUnit, gauge, measurements, n,
                        distribution, operation)
            /\ UNCHANGED <<calculationType, distribution, operation, pc,
                           showInstructions, measurementUnit, gauge,
                           measurements>>

\* onClick of the two unit buttons
SetMeasurementUnit ==
    \E u \in MeasurementUnit :
        /\ measurementUnit' = u
        /\ Rendered(u, gauge, measurements, neckMeasurement,
                    distribution, operation)
        /\ UNCHANGED <<calculationType, distribution, operation, pc,
                       showInstructions, gauge, measurements, neckMeasurement>>

\* onClick of the show/hide instructions button
ToggleInstructions ==
    /\ showInstructions' = ~showInstructions
    /\ Rendered(measurementUnit, gauge, measurements, neckMeasurement,
                distribution, operation)
    /\ UNCHANGED <<calculationType, distribution, operation, pc,
                   measurementUnit, gauge, measurements, neckMeasurement>>

NextUI ==
    \/ ChangeStitchGauge
    \/ ChangeRowGauge
    \/ SetCalculationType
    \/ SetOperation
    \/ ChangeWidth
    \/ ChangeHeight
    \/ SetDistribution
    \/ ChangeNeckMeasurement
    \/ SetMeasurementUnit
    \/ ToggleInstructions

SpecUI == InitUI /\ [][NextUI]_vars

(***************************************************************************)
(* Sums over the returned segments, written over the indices.              *)
(***************************************************************************)
RECURSIVE StitchesUpTo(_, _)
StitchesUpTo(segments, n) ==
    IF n = 0 THEN 0
    ELSE StitchesUpTo(segments, n - 1)
            + segments[n].stitches * segments[n].repetitions

RECURSIVE RowsUpTo(_, _)
RowsUpTo(segments, n) ==
    IF n = 0 THEN 0
    ELSE RowsUpTo(segments, n - 1)
            + segments[n].frequency * segments[n].repetitions

StitchesShaped(segments) == StitchesUpTo(segments, Len(segments))
RowsShaped(segments) == RowsUpTo(segments, Len(segments))

(***************************************************************************)
(* Properties of MagicFormulaCalculator.calculate                          *)
(***************************************************************************)

\* C1: whenever calculate returns isValid = true, the sum over
\* gradualSegments of stitches x repetitions equals the requested stitches.
\* The code returns isValid = true with no segments when rows = 2.
C1_ValidResultShapesAllStitches ==
    (StraightReturned /\ result.isValid)
        => StitchesShaped(result.gradualSegments) = stitches

\* C2: for stitches >= 1 and rows >= 1, totalRowsUsed is the sum over
\* gradualSegments of frequency x repetitions and never exceeds
\* max(1, rows - 1), so at least one requested row is left plain.
C2_RowsUsedWithinBudget ==
    (StraightReturned /\ stitches >= 1 /\ rows >= 1)
        => /\ result.totalRowsUsed = RowsShaped(result.gradualSegments)
           /\ result.totalRowsUsed <= (IF rows - 1 > 1 THEN rows - 1 ELSE 1)
           /\ result.totalRowsUsed < rows

C2_Witness ==
    /\ StraightReturned
    /\ stitches >= 1
    /\ rows >= 3
    /\ Len(result.gradualSegments) = 2
    /\ result.totalRowsUsed = rows - 1

\* C3: with stitches <= 0 or rows <= 0 the call returns (it does not throw)
\* a result with no segments, isValid = false, empty notation,
\* totalRowsUsed = 0, no warnings and exactly one diagnostic instruction.
C3_InvalidInputResult ==
    (StraightReturned /\ (stitches <= 0 \/ rows <= 0))
        => /\ result.gradualSegments = <<>>
           /\ result.isValid = FALSE
           /\ result.japaneseNotation = ""
           /\ result.totalRowsUsed = 0
           /\ result.warnings = <<>>
           /\ Len(result.writtenInstructions) = 1

C3_Witness ==
    /\ StraightReturned
    /\ stitches = 0
    /\ rows >= 3
    /\ result.writtenInstructions
          = <<"Invalid input: stitches and rows must be positive">>

\* C4: calculate(50, 26, d, 'decrease') returns the notation
\* "-4/2/10, -5/2/2" for either value d of the distribution parameter.
\* The code returns "-5/2/2, -4/2/10" for d = 'late_extra'.
C4_Notation50Over26 ==
    (StraightReturned /\ stitches = 50 /\ rows = 26 /\ operation = "decrease")
        => result.japaneseNotation = "-4/2/10, -5/2/2"

\* C5: calculate(50, 120, 'early_extra', 'decrease') returns the notation
\* "-1/2/50".  The code returns "-1/4/9, -1/2/41".
C5_Notation50Over120 ==
    (/\ StraightReturned
     /\ stitches = 50 /\ rows = 120
     /\ distribution = "early_extra" /\ operation = "decrease")
        => result.japaneseNotation = "-1/2/50"

\* C10: for rows = 1 and any stitches >= 1, calculate uses
\* availableRowsForShaping = 1 and availableDecreasePoints = 0 and returns
\* empty segments with isValid = false.
C10_SingleRow ==
    (StraightReturned /\ rows = 1 /\ stitches >= 1)
        => /\ AvailableRowsForShaping(rows) = 1
           /\ AvailableDecreasePoints(rows) = 0
           /\ result.gradualSegments = <<>>
           /\ result.isValid = FALSE

C10_Witness ==
    /\ StraightReturned
    /\ rows = 1
    /\ stitches >= 1
    /\ result.gradualSegments = <<>>
    /\ result.warnings
          = <<"Not enough rows for EOR decreases - need at least 2 rows",
              "Need at least 2 rows total (1 for shaping + 1 plain row)">>

(***************************************************************************)
(* Properties of CrewNeckCalculator.calculate                              *)
(***************************************************************************)

\* C6: for every totalStitchesPerSide >= 1 the counts are non-negative and
\* castOff + everyRowDecrease + eorDecrease = totalStitchesPerSide.
C6_CrewNeckCountsSumToTotal ==
    (CrewNeckReturned /\ totalStitchesToDecrease >= 1)
        => /\ crewNeckResult.castOff >= 0
           /\ crewNeckResult.everyRowDecrease >= 0
           /\ crewNeckResult.eorDecrease >= 0
           /\ crewNeckResult.castOff + crewNeckResult.everyRowDecrease
                 + crewNeckResult.eorDecrease = totalStitchesToDecrease

C6_Witness ==
    /\ CrewNeckReturned
    /\ totalStitchesToDecrease >= 3
    /\ crewNeckResult.castOff >= 1
    /\ crewNeckResult.everyRowDecrease >= 1
    /\ crewNeckResult.eorDecrease >= 1

C8_CrewNeckValidity ==
    CrewNeckReturned
        => /\ totalStitchesToDecrease <= 0
                => /\ crewNeckResult.isValid = FALSE
                   /\ crewNeckResult.castOff = 0
                   /\ crewNeckResult.everyRowDecrease = 0
                   /\ crewNeckResult.eorDecrease = 0
                   /\ crewNeckResult.writtenInstructions
                         = <<"Invalid input: stitches must be positive">>
           /\ totalStitchesToDecrease >= 1
                => crewNeckResult.isValid = TRUE

C8_Witness ==
    /\ CrewNeckReturned
    /\ totalStitchesToDecrease = 0
    /\ crewNeckResult.isValid = FALSE
    /\ crewNeckResult.writtenInstructions
          = <<"Invalid input: stitches must be positive">>

(***************************************************************************)
(* Properties of the case split and the rendering of                       *)
(* MagicFormulaCalculator.calculate                                        *)
(***************************************************************************)
OtherDistribution(d) == IF d = "late_extra" THEN "early_extra" ELSE "late_extra"

\* a and b hold the same segments the same number of times
SameSegmentsUpToOrder(a, b) ==
    /\ Len(a) = Len(b)
    /\ \A i \in 1 .. Len(a) :
          Cardinality({j \in 1 .. Len(a) : a[j] = a[i]})
             = Cardinality({j \in 1 .. Len(b) : b[j] = a[i]})

\* C11: for every stitches, rows and operation the results under
\* 'late_extra' and 'early_extra' hold the same multiset of segments, the
\* same totalRowsUsed, isValid and warnings; with two segments the
\* distribution can only change their order, with fewer than two the two
\* results are identical.
C11_DistributionOnlyReorders ==
    StraightReturned
        => LET other == MagicFormulaCalculate(stitches, rows,
                            OtherDistribution(distribution), operation)
               a == result.gradualSegments
               b == other.gradualSegments
           IN  /\ SameSegmentsUpToOrder(a, b)
               /\ result.totalRowsUsed = other.totalRowsUsed
               /\ result.isValid = other.isValid
               /\ result.warnings = other.warnings
               /\ Len(a) = 2 => (b = a \/ b = <<a[2], a[1]>>)
               /\ Len(a) < 2 => other = result

C11_Witness ==
    /\ StraightReturned
    /\ distribution = "early_extra"
    /\ Len(result.gradualSegments) = 2
    /\ result.gradualSegments[1].stitches < result.gradualSegments[2].stitches
    /\ MagicFormulaCalculate(stitches, rows, "late_extra", operation).gradualSegments
          = <<result.gradualSegments[2], result.gradualSegments[1]>>

\* C12 as claimed: for stitches >= 1 and rows >= 1 the only condition under
\* which isValid = false is totalRowsUsed > availableRowsForShaping.
\* The code also returns isValid = false for rows = 1.
C12_OnlyRowBudgetInvalidates ==
    (StraightReturned /\ stitches >= 1 /\ rows >= 1 /\ result.isValid = FALSE)
        => result.totalRowsUsed > AvailableRowsForShaping(rows)

\* C12 as amended: for stitches >= 1 and rows >= 1, isValid = false exactly
\* when totalRowsUsed > availableRowsForShaping or rows < 2.
C12_RowBudgetOrSingleRowInvalidates ==
    (StraightReturned /\ stitches >= 1 /\ rows >= 1)
        => (result.isValid = FALSE
              <=> (\/ result.totalRowsUsed > AvailableRowsForShaping(rows)
                   \/ rows < 2))

C12_Witness ==
    /\ StraightReturned
    /\ stitches >= 1
    /\ rows = 1
    /\ result.isValid = FALSE
    /\ result.totalRowsUsed <= AvailableRowsForShaping(rows)

\* C13: every returned segment has stitches >= 1, frequency >= 1 and
\* repetitions >= 1, for any integer inputs, and there are at most two
\* segments.
C13_SegmentsArePositive ==
    StraightReturned
        => /\ Len(result.gradualSegments) <= 2
           /\ \A i \in 1 .. Len(result.gradualSegments) :
                 /\ result.gradualSegments[i].stitches >= 1
                 /\ result.gradualSegments[i].frequency >= 1
                 /\ result.gradualSegments[i].repetitions >= 1

\* the dense case with every row used by an every-row decrease: the EOR
\* segment would have 0 repetitions and is left out
C13_Witness ==
    /\ StraightReturned
    /\ stitches >= 2
    /\ stitches = AvailableRowsForShaping(rows)
    /\ result.gradualSegments = <<ShapingSegment(1, 1, stitches)>>

\* C14: japaneseNotation is the segments in their final order, each
\* rendered "-S/F/R" for 'decrease' and "S/F/R" for 'increase', joined by
\* ", "; it is the empty string exactly when there are no segments.
RenderedSegment(seg, sign) ==
    sign \o ToString(seg.stitches) \o "/" \o ToString(seg.frequency)
         \o "/" \o ToString(seg.repetitions)

InDenseCase ==
    /\ StraightReturned
    /\ rows >= 1
    /\ AvailableDecreasePoints(rows) >= 1
    /\ AvailableDecreasePoints(rows) < stitches
    /\ stitches <= AvailableRowsForShaping(rows)

\* C17: dense case.  With y = min(availableRowsForShaping - stitches,
\* stitches) and x = stitches - y, the segments are an every-row segment
\* (1, 1, x) when x > 0 followed by an EOR segment (1, 2, y) when y > 0, in
\* that order for both distributions.
C17_DenseSegments ==
    InDenseCase
        => LET A == AvailableRowsForShaping(rows)
               y == IF A - stitches <= stitches THEN A - stitches ELSE stitches
               x == stitches - y
               everyRow == IF x > 0
                           THEN <<[stitches |-> 1, frequency |-> 1,
                                   repetitions |-> x]>>
                           ELSE <<>>
               eor == IF y > 0
                      THEN <<[stitches |-> 1, frequency |-> 2,
                              repetitions |-> y]>>
                      ELSE <<>>
           IN  result.gradualSegments = everyRow \o eor

C17_Witness ==
    /\ StraightReturned
    /\ stitches = 8
    /\ rows = 11
    /\ result.gradualSegments
          = <<[stitches |-> 1, frequency |-> 1, repetitions |-> 6],
              [stitches |-> 1, frequency |-> 2, repetitions |-> 2]>>

\* the events of the result made at a given frequency
RECURSIVE RepetitionsAt(_, _)
RepetitionsAt(segments, frequency) ==
    IF segments = <<>> THEN 0
    ELSE (IF segments[1].frequency = frequency
          THEN segments[1].repetitions ELSE 0)
            + RepetitionsAt(Tail(segments), frequency)

\* C18: in the dense case the returned EOR repetition count is the maximum
\* y' among the integer pairs (x', y') with x', y' >= 0,
\* x' + y' = stitches and x' + 2y' <= availableRowsForShaping, and the
\* returned pair is the only one attaining it.
C18_DenseEorIsMaximal ==
    InDenseCase
        => LET A == AvailableRowsForShaping(rows)
               x == RepetitionsAt(result.gradualSegments, 1)
               y == RepetitionsAt(result.gradualSegments, 2)
           IN  /\ x >= 0
               /\ y >= 0
               /\ x + y = stitches
               /\ x + 2 * y <= A
               /\ \A xx, yy \in 0 .. stitches :
                     (xx + yy = stitches /\ xx + 2 * yy <= A)
                        => (yy <= y /\ (yy = y => xx = x))

C18_Witness ==
    /\ InDenseCase
    /\ stitches = 7
    /\ rows = 11
    /\ RepetitionsAt(result.gradualSegments, 1) = 4
    /\ RepetitionsAt(result.gradualSegments, 2) = 3

\* C19: exact case.  stitches = availableDecreasePoints >= 1 gives exactly
\* one segment, (1, 2, stitches), for both distributions.
C19_ExactSegment ==
    (/\ StraightReturned
     /\ rows >= 1
     /\ stitches >= 1
     /\ stitches = AvailableDecreasePoints(rows))
        => result.gradualSegments
              = <<[stitches |-> 1, frequency |-> 2, repetitions |-> stitches]>>

C19_Witness ==
    /\ StraightReturned
    /\ stitches = 5
    /\ rows = 11
    /\ distribution = "early_extra"
    /\ result.gradualSegments
          = <<[stitches |-> 1, frequency |-> 2, repetitions |-> 5]>>

Contains(seq, x) == \E i \in 1 .. Len(seq) : seq[i] = x

\* C20: when availableDecreasePoints = 0 (rows = 1 or rows = 2) and
\* stitches >= 1, no segments are produced whatever the stitch count,
\* totalRowsUsed = 0, the notation is empty and the warning 'Not enough rows
\* for EOR decreases - need at least 2 rows' is present; the warning 'Need
\* at least 2 rows total ...' is present exactly when rows < 2.
C20_NoDecreasePoints ==
    (StraightReturned /\ stitches >= 1 /\ rows >= 1)
        => /\ AvailableDecreasePoints(rows) = 0 <=> rows \in {1, 2}
           /\ AvailableDecreasePoints(rows) = 0
                => /\ result.gradualSegments = <<>>
                   /\ result.totalRowsUsed = 0
                   /\ result.japaneseNotation = ""
                   /\ Contains(result.warnings,
                         "Not enough rows for EOR decreases - need at least 2 rows")
                   /\ Contains(result.warnings,
                         "Need at least 2 rows total (1 for shaping + 1 plain row)")
                        <=> rows < 2

C20_Witness ==
    /\ StraightReturned
    /\ stitches >= 3
    /\ rows = 2
    /\ result.gradualSegments = <<>>
    /\ result.warnings
          = <<"Not enough rows for EOR decreases - need at least 2 rows">>

\* C21: a segment with frequency 1 appears only when
\* availableDecreasePoints < stitches <= availableRowsForShaping; in every
\* other case all segment frequencies are even.
C21_EveryRowOnlyWhenEorCannotFit ==
    StraightReturned
        => LET segs == result.gradualSegments
               dense == /\ AvailableDecreasePoints(rows) < stitches
                        /\ stitches <= AvailableRowsForShaping(rows)
           IN  /\ (\E i \in 1 .. Len(segs) : segs[i].frequency = 1) => dense
               /\ ~dense => \A i \in 1 .. Len(segs) : segs[i].frequency % 2 = 0

C21_Witness ==
    /\ InDenseCase
    /\ stitches = 9
    /\ rows = 13
    /\ result.gradualSegments[1].frequency = 1
    /\ result.gradualSegments[2].frequency = 2

\* the largest stitches value over the segments, 0 when there are none
LargestStitches(segments) ==
    IF segments = <<>> THEN 0
    ELSE CHOOSE m \in {segments[i].stitches : i \in 1 .. Len(segments)} :
            \A i \in 1 .. Len(segments) : segments[i].stitches <= m

LargePerPointWarning ==
    "Very large decreases per point - consider more rows for smoother curve"

LargeRequiredWarning(n) ==
    "Very large decreases required: up to " \o ToString(n)
        \o " stitches per decrease point"

\* C22: for stitches >= 1 and rows >= 1 the warning 'Very large decreases
\* per point ...' is present exactly when the largest stitches value over
\* the segments is strictly greater than 8, and 'Very large decreases
\* required: up to N ...' is present exactly when the input is in the
\* overflow case and that maximum N is strictly greater than 8.
C22_LargeDecreaseWarnings ==
    (StraightReturned /\ stitches >= 1 /\ rows >= 1)
        => LET n == LargestStitches(result.gradualSegments)
               overflow == /\ stitches > AvailableRowsForShaping(rows)
                           /\ stitches > AvailableDecreasePoints(rows)
           IN  /\ Contains(result.warnings, LargePerPointWarning) <=> n > 8
               /\ (\E k \in 0 .. stitches :
                      Contains(result.warnings, LargeRequiredWarning(k)))
                     <=> (overflow /\ n > 8)
               /\ (overflow /\ n > 8)
                     => Contains(result.warnings, LargeRequiredWarning(n))
               /\ n = 8 => result.warnings = <<>>

C22_Witness ==
    /\ StraightReturned
    /\ stitches = 9
    /\ rows = 3
    /\ result.warnings = <<LargeRequiredWarning(9), LargePerPointWarning>>

\* C23: the crew-neck cast-off obeys the '1/3 minimum cast-off rule': for
\* every total >= 1, 3 x castOff >= total.  The code takes the floor of
\* total / 3, which is below one third unless 3 divides total.
C23_CastOffAtLeastOneThird ==
    (CrewNeckReturned /\ totalStitchesToDecrease >= 1)
        => 3 * crewNeckResult.castOff >= totalStitchesToDecrease

\* C24: with 'late_extra' the smaller decreases come first and with
\* 'early_extra' the larger decreases come first, in every two-segment
\* overflow result.  The code orders them the other way round.
C24_LateExtraSmallerFirst ==
    (/\ StraightReturned
     /\ stitches >= 1
     /\ rows >= 1
     /\ stitches > AvailableRowsForShaping(rows)
     /\ Len(result.gradualSegments) = 2)
        => LET segs == result.gradualSegments
           IN  /\ distribution = "late_extra"
                    => segs[1].stitches < segs[2].stitches
               /\ distribution = "early_extra"
                    => segs[1].stitches > segs[2].stitches

\* C26: for stitches >= 1 and availableDecreasePoints D >= 1,
\* totalRowsUsed is exactly 2 x D in the overflow, sparse and exact cases
\* and exactly availableRowsForShaping in the dense case; hence
\* availableRowsForShaping - totalRowsUsed is always 0 or 1.
C26_RowsUsedPerCase ==
    (/\ StraightReturned
     /\ stitches >= 1
     /\ rows >= 1
     /\ AvailableDecreasePoints(rows) >= 1)
        => LET A == AvailableRowsForShaping(rows)
               D == AvailableDecreasePoints(rows)
               dense == D < stitches /\ stitches <= A
           IN  /\ dense => result.totalRowsUsed = A
               /\ ~dense => result.totalRowsUsed = 2 * D
               /\ A - result.totalRowsUsed \in {0, 1}

C26_Witness ==
    /\ StraightReturned
    /\ stitches = 50
    /\ rows = 120
    /\ result.totalRowsUsed = 118
    /\ AvailableRowsForShaping(rows) = 119

ExceedsRowsWarning == "Shaping exceeds available rows - adjust parameters"

\* C27: for every stitches >= 1 and rows >= 1, isValid = true if and only
\* if rows >= 2, because totalRowsUsed > availableRowsForShaping is
\* unreachable; the warning 'Shaping exceeds available rows - adjust
\* parameters' is never emitted for any input.
C27_ValidIffTwoRows ==
    StraightReturned
        => /\ (stitches >= 1 /\ rows >= 1)
                => /\ result.isValid = TRUE <=> rows >= 2
                   /\ ~(result.totalRowsUsed > AvailableRowsForShaping(rows))
           /\ ~Contains(result.warnings, ExceedsRowsWarning)

C27_Witness ==
    /\ InDenseCase
    /\ rows >= 3
    /\ result.isValid = TRUE
    /\ result.totalRowsUsed = AvailableRowsForShaping(rows)

NoEorWarning == "No EOR decreases - curve may be too steep"

\* C28: for every total >= 1, CrewNeckCalculator.calculate returns
\* eorDecrease >= 1 and eorDecrease - everyRowDecrease in {0, 1}; hence the
\* warning 'No EOR decreases - curve may be too steep' is never emitted for
\* any input.
C28_CrewNeckAlwaysHasEor ==
    CrewNeckReturned
        => /\ totalStitchesToDecrease >= 1
                => /\ crewNeckResult.eorDecrease >= 1
                   /\ crewNeckResult.eorDecrease
                         - crewNeckResult.everyRowDecrease \in {0, 1}
           /\ ~Contains(crewNeckResult.warnings, NoEorWarning)

C28_Witness ==
    /\ CrewNeckReturned
    /\ totalStitchesToDecrease = 1
    /\ crewNeckResult.eorDecrease = 1
    /\ crewNeckResult.everyRowDecrease = 0

\* C29: a segment with stitches > 1 occurs only in the overflow case, where
\* every segment has stitches >= 2, so for every input the warnings contain
\* 'Very large decreases required ...' if and only if they contain 'Very
\* large decreases per point ...'.
C29_LargeWarningsTogether ==
    StraightReturned
        => LET segs == result.gradualSegments
               overflow == /\ stitches > AvailableRowsForShaping(rows)
                           /\ stitches > AvailableDecreasePoints(rows)
           IN  /\ \A i \in 1 .. Len(segs) :
                     /\ segs[i].stitches > 1 => overflow
                     /\ overflow => segs[i].stitches >= 2
               /\ (\E k \in 0 .. MaxStitches + 1 :
                      Contains(result.warnings, LargeRequiredWarning(k)))
                     <=> Contains(result.warnings, LargePerPointWarning)

C29_Witness ==
    /\ StraightReturned
    /\ stitches = 20
    /\ rows = 5
    /\ result.gradualSegments = <<ShapingSegment(10, 2, 2)>>
    /\ Contains(result.warnings, LargeRequiredWarning(10))
    /\ Contains(result.warnings, LargePerPointWarning)

OtherOperation(o) == IF o = "decrease" THEN "increase" ELSE "decrease"

\* the part of an instruction after its leading word
InstructionTail(seg) ==
    " " \o (IF seg.stitches = 1 THEN "1 stitch"
            ELSE ToString(seg.stitches) \o " stitches")
        \o " every " \o ToString(seg.frequency) \o " rows, "
        \o ToString(seg.repetitions) \o " times"

RenderedSegments(segs, sign) ==
    IF Len(segs) = 0 THEN ""
    ELSE IF Len(segs) = 1 THEN RenderedSegment(segs[1], sign)
    ELSE RenderedSegment(segs[1], sign) \o ", "
            \o RenderedSegment(segs[2], sign)

C25_MemoisedResultsAreCurrent ==
    pc = "rendered"
        => LET currentStitches ==
                   ConvertMeasurement(measurements.widthChange,
                                      measurementUnit, gauge.stitchesPerCm)
               currentRows ==
                   ConvertMeasurement(measurements.heightAvailable,
                                      measurementUnit, gauge.rowsPerCm)
               currentNeckStitches ==
                   ConvertMeasurement(neckMeasurement, measurementUnit,
                                      gauge.stitchesPerCm)
           IN  /\ stitches = currentStitches
               /\ rows = currentRows
               /\ totalStitchesToDecrease = currentNeckStitches
               /\ result = MagicFormulaCalculate(currentStitches, currentRows,
                                                 distribution, operation)
               /\ crewNeckResult = CrewNeckCalculate(currentNeckStitches)

C25_Witness ==
    /\ pc = "rendered"
    /\ operation = "increase"
    /\ distribution = "early_extra"
    /\ measurementUnit = "inches"
    /\ calculationType = "crew_neck"
    /\ measurements # InitialMeasurements
    /\ neckMeasurement # InitialNeckMeasurement
    /\ gauge.stitchesPerCm # InitialGauge.stitchesPerCm
    /\ Len(result.gradualSegments) = 2
    /\ crewNeckResult.isValid = TRUE

====
